---- MODULE Spec2Model ----
(***************************************************************************)
(* A model of pymatgen's FEFF output readers (pymatgen/io/feff/outputs.py: *)
(* LDos and Xmu) and of the LOBSTER readers as far as their tests          *)
(* (pymatgen/io/tests/test_lobster.py) describe them.                      *)
(*                                                                         *)
(* The readers are sequential functions of their input files.  The state   *)
(* is the input (feff.inp and the files of the run directory), the objects *)
(* the readers returned, and the last value an operation handed to the     *)
(* caller.  One action stands for one call.  A call that raises leaves a   *)
(* result with st = "error".                                               *)
(*                                                                         *)
(* Numbers are integers: the readers only move, index and add them.        *)
(***************************************************************************)
EXTENDS Integers, Sequences, FiniteSets, TLC

VARIABLES inp, fs, ldos, ldos0, cht, chts, opened, copened, xin, xmu, xmu0, ret, xmu2, wrote, lin, lob

vars == <<inp, fs, ldos, ldos0, cht, chts, opened, copened,
          xin, xmu, xmu0, ret, xmu2, wrote, lin, lob>>

ldosVars == <<inp, fs, ldos, ldos0, cht, chts, opened, copened>>
xmuVars == <<xin, xmu, xmu0, ret, xmu2, wrote>>
lobVars == <<lin, lob>>

(***************************************************************************)
(* Bounds of the model.                                                    *)
(***************************************************************************)
\* potentials listed in the POTENTIALS block (indices 0 .. MaxPots-1)
MaxPots == 3
\* sites of the structure
MaxSites == 2
\* data rows of an ldos table
MaxRows == 3
\* data rows of xmu.dat
MaxXRows == 3
\* bonds listed in a LOBSTER file
MaxBonds == 2
\* energy points of a LOBSTER file
MaxEnergies == 2
\* the highest potential index of a long POTENTIALS block
MaxIndex == 11

Symbols == {"Co", "O"}

(***************************************************************************)
(* Python values.                                                          *)
(***************************************************************************)
\* a raised exception, and a returned value
Err == [ok |-> FALSE, val |-> 0]
Ok(v) == [ok |-> TRUE, val |-> v]

None == [st |-> "none"]
Raised == [st |-> "error"]

Digit == <<"0", "1", "2", "3", "4", "5", "6", "7", "8", "9">>

\* str(i) of a non-negative int
RECURSIVE Str(_)
Str(i) == IF i < 10 THEN Digit[i + 1] ELSE Str(i \div 10) \o Digit[(i % 10) + 1]

RECURSIVE SumSeq(_)
SumSeq(s) == IF s = <<>> THEN 0 ELSE Head(s) + SumSeq(Tail(s))

SeqsUpTo(S, lo, hi) == UNION {[1..n -> S] : n \in lo..hi}

(***************************************************************************)
(* numpy arrays: ndim and the nested data (a sequence of numbers, or a     *)
(* sequence of rows).                                                      *)
(***************************************************************************)
Array1(d) == [ndim |-> 1, d |-> d, ncols |-> 0]
Array2(d, m) == [ndim |-> 2, d |-> d, ncols |-> m]

\* len(a)
PyLen(a) == Len(a.d)

\* a[j][c], both 0-based: IndexError outside a 2-D array's shape, and on the
\* scalar a[j] of a 1-D array
Index2(a, j, c) ==
    IF a.ndim = 2 /\ j < Len(a.d) /\ c < a.ncols THEN Ok(a.d[j + 1][c + 1]) ELSE Err

\* np.loadtxt of the data rows of a text file with default ndmin=0: the
\* result is squeezed, so no row gives an empty 1-D array and one row a 1-D
\* array of its columns
LoadTxtRows(tab, m) ==
    IF Len(tab) = 0 THEN Array1(<<>>)
    ELSE IF Len(tab) = 1 THEN Array1(tab[1])
    ELSE Array2(tab, m)

(***************************************************************************)
(* The ldos files.  A file has hdr comment lines ('#' lines, which         *)
(* np.loadtxt skips and readlines() returns) followed by its data rows.    *)
(* htok says whether the header lines carry the tokens of the FEFF layout. *)
(***************************************************************************)
\* the lines charge_transfer_from_file indexes: f[1], f[3] .. f[6]
HeaderLines == 7
\* the columns of a table row: energy, s, p, d, f
LdosCols == 5

\* the value in row j, column c (0-based) of the table of the file written for
\* potential id
Cell(id, j, c) == 100 * id + 10 * (j + 1) + c + 1

MkTab(id, n, m) == [j \in 1..n |-> [c \in 1..m |-> Cell(id, j - 1, c - 1)]]

\* the number on header line k (0-based) of the file of potential id
HeaderVal(id, k) == 1000 + 100 * id + k

\* the token of header line k that is a number in the FEFF layout: the last
\* of 5 on lines 0 and 1 (Fermi level, charge transfer), the last of 3 on
\* lines 3 .. 6 (electron counts for l = 0 .. 3)
HeaderNumPos(k) == IF k \in {0, 1} THEN 4 ELSE IF k \in 3..6 THEN 2 ELSE -1

NumLines(f) == f.hdr + Len(f.tab)

\* float(f[k].split()[t]) on the lines readlines() returned
ReadFloat(f, k, t) ==
    IF k >= NumLines(f) THEN Err
    ELSE IF k < f.hdr
         THEN IF f.htok /\ t = HeaderNumPos(k) THEN Ok(HeaderVal(f.id, k)) ELSE Err
         ELSE IF t < f.cols THEN Ok(f.tab[k - f.hdr + 1][t + 1]) ELSE Err

\* np.loadtxt(name)
LoadTxt(files, name) ==
    IF name \notin DOMAIN files THEN Err
    ELSE Ok(LoadTxtRows(files[name].tab, files[name].cols))

LdosBase == "ldos"

\* "{}0{}.dat".format(filename2, i)
NameOneDigit(base, i) == base \o "0" \o Str(i) \o ".dat"

\* a variant: a zero put before the longer indices too
NameTwoDigitPadded(base, i) == base \o "0" \o Str(i) \o ".dat"

\* "{}{}.dat".format(filename2, i), filename2 + str(i) + ".dat"
NameTwoDigit(base, i) == base \o Str(i) \o ".dat"

\* the name of ldos file i
LdosName(base, i) ==
    IF Len(Str(i)) = 1 THEN NameOneDigit(base, i) ELSE NameTwoDigit(base, i)

(***************************************************************************)
(* feff.inp: the POTENTIALS block (pots[k] is the symbol of potential      *)
(* k-1) and the species of the structure's sites.                          *)
(***************************************************************************)
\* dicts[0]: symbol -> potential index, a later line replacing an earlier one
PotDict(pots) ==
    [s \in {pots[k] : k \in 1..Len(pots)} |->
        CHOOSE i \in 0..(Len(pots) - 1) :
            /\ pots[i + 1] = s
            /\ \A k \in 0..(Len(pots) - 1) : pots[k + 1] = s => k <= i]

\* dicts[1]: potential index -> symbol
PotDictReverse(pots) == [i \in 0..(Len(pots) - 1) |-> pots[i + 1]]

(***************************************************************************)
(* LDos.charge_transfer_from_file                                          *)
(***************************************************************************)
\* the five numbers read from the lines of one ldos file, and the entry
\* {pot_dict[i]: {'s': .., 'p': .., 'd': .., 'f': .., 'tot': ..}} made of them
ChargeEntry(f, rev, i) ==
    LET s == ReadFloat(f, 3, 2)
        p == ReadFloat(f, 4, 2)
        d == ReadFloat(f, 5, 2)
        f1 == ReadFloat(f, 6, 2)
        tot == ReadFloat(f, 1, 4)
    IN  IF ~(s.ok /\ p.ok /\ d.ok /\ f1.ok /\ tot.ok) THEN Err
        ELSE IF i \notin DOMAIN rev THEN Err
        ELSE Ok([key |-> Str(i),
                 val |-> (rev[i] :> [s |-> s.val, p |-> p.val, d |-> d.val,
                                     f |-> f1.val, tot |-> tot.val])])

\* the branch for len(str(i)) == 1
ChargeEntryOneDigit(files, base, rev, i) ==
    LET name == NameOneDigit(base, i)
    IN  IF name \notin DOMAIN files THEN Err ELSE ChargeEntry(files[name], rev, i)

\* (a variant: the longer indices store s and p exchanged)
ChargeEntryTwoDigitExchanged(files, base, rev, i) ==
    LET name == NameTwoDigit(base, i)
        e == IF name \notin DOMAIN files THEN Err ELSE ChargeEntry(files[name], rev, i)
    IN  IF ~e.ok THEN Err
        ELSE Ok([key |-> e.val.key,
                 val |-> [a \in DOMAIN e.val.val |->
                            [e.val.val[a] EXCEPT !.s = e.val.val[a].p,
                                                 !.p = e.val.val[a].s]]])

\* the branch for longer indices
ChargeEntryTwoDigit(files, base, rev, i) ==
    LET name == NameTwoDigit(base, i)
    IN  IF name \notin DOMAIN files THEN Err ELSE ChargeEntry(files[name], rev, i)

\* the loop bound: range(0, len(dicts[0]) + 1)
ChargeLoopLast(pots) == Cardinality(DOMAIN PotDict(pots))

\* cht, an OrderedDict, as the sequence of its entries in insertion order
charge_transfer_from_file(pots, files, base) ==
    LET rev == PotDictReverse(pots)
        last == ChargeLoopLast(pots)
        e == [i \in 0..last |->
                IF Len(Str(i)) = 1 THEN ChargeEntryOneDigit(files, base, rev, i)
                ELSE ChargeEntryTwoDigit(files, base, rev, i)]
    IN  IF \E i \in 0..last : ~e[i].ok THEN Raised
        ELSE [st |-> "ok", d |-> [k \in 1..(last + 1) |-> e[k - 1].val]]

\* the files charge_transfer_from_file opens, in order: those of the loop up
\* to the first iteration that raises
ChargeOpens(pots, files, base) ==
    LET rev == PotDictReverse(pots)
        last == ChargeLoopLast(pots)
        name(i) == IF Len(Str(i)) = 1 THEN NameOneDigit(base, i) ELSE NameTwoDigit(base, i)
        entry(i) == IF Len(Str(i)) = 1 THEN ChargeEntryOneDigit(files, base, rev, i)
                    ELSE ChargeEntryTwoDigit(files, base, rev, i)
        stop == IF \E i \in 0..last : ~entry(i).ok
                THEN CHOOSE i \in 0..last :
                        ~entry(i).ok /\ \A k \in 0..(i - 1) : entry(k).ok
                ELSE last
    IN  [k \in 1..(stop + 1) |-> name(k - 1)]

(***************************************************************************)
(* LDos.from_file                                                          *)
(***************************************************************************)
\* (a variant: the columns of s and p exchanged)
forbExchanged == [s |-> 1, p |-> 0, d |-> 2, f |-> 3]

vorb == [s |-> "s", p |-> "py", d |-> "dxy", f |-> "f0"]
forb == [s |-> 0, p |-> 1, d |-> 2, f |-> 3]
Orbitals == {vorb[k] : k \in DOMAIN vorb}

\* efermi = float(f[0].split()[4]) of <base>00.dat
ReadFermi(files, base) ==
    LET name == base \o "00.dat"
    IN  IF name \notin DOMAIN files THEN Err ELSE ReadFloat(files[name], 0, 4)

\* ldos[i] for i in range(1, len(pot_dict) + 1)
LoadTables(files, base, n) == [i \in 1..n |-> LoadTxt(files, LdosName(base, i))]

\* (a variant: the energies without the last row)
DosEnergiesShort(t1) ==
    IF \E i \in 0..(PyLen(t1) - 1) : ~Index2(t1, i, 0).ok THEN Err
    ELSE Ok([i \in 1..(PyLen(t1) - 1) |-> Index2(t1, i - 1, 0).val])

\* dos_energies: ldos[1][i][0] for i in range(len(ldos[1]))
DosEnergies(t1) ==
    IF \E i \in 0..(PyLen(t1) - 1) : ~Index2(t1, i, 0).ok THEN Err
    ELSE Ok([i \in 1..PyLen(t1) |-> Index2(t1, i - 1, 0).val])

\* [ldos[pot_index][j][col] for j in range(dlength)]
Density(tables, pot_index, col, dlength) ==
    IF dlength = 0 THEN Ok(<<>>)
    ELSE IF pot_index \notin DOMAIN tables THEN Err
    ELSE IF \E j \in 0..(dlength - 1) : ~Index2(tables[pot_index], j, col).ok THEN Err
    ELSE Ok([j \in 1..dlength |-> Index2(tables[pot_index], j - 1, col).val])

\* (a variant: the first site reads table 1 whatever its symbol)
SitePotIndexFirstSiteFixed(pot_dict, species, i) ==
    IF species[i] \notin DOMAIN pot_dict THEN Err
    ELSE IF i = 1 THEN Ok(1) ELSE Ok(pot_dict[species[i]])

\* pot_index = pot_dict[structure.species[i].symbol], a KeyError for a symbol
\* the POTENTIALS block does not list
SitePotIndex(pot_dict, species, i) ==
    IF species[i] \in DOMAIN pot_dict THEN Ok(pot_dict[species[i]]) ELSE Err

\* the files from_file itself opens, in order: <base>00.dat, then the tables
\* up to the first that cannot be loaded
FromFileOpens(pots, files, base) ==
    LET n == Cardinality(DOMAIN PotDict(pots))
        loaded == LoadTables(files, base, n)
        stop == IF \E i \in 1..n : ~loaded[i].ok
                THEN CHOOSE i \in 1..n : ~loaded[i].ok /\ \A k \in 1..(i - 1) : loaded[k].ok
                ELSE n
    IN  <<base \o "00.dat">>
        \o (IF ReadFermi(files, base).ok THEN [i \in 1..stop |-> LdosName(base, i)] ELSE <<>>)

\* (a variant: the density copied into a down channel)
DownDosCopied(updos) == [some |-> TRUE, val |-> updos]

\* downdos = None
DownDos(updos) == [some |-> FALSE, val |-> <<>>]

\* "if downdos:" and the two dictionaries of the branches
SpinChannels(updos, downdos) ==
    IF downdos.some /\ downdos.val # <<>> THEN [up |-> updos, down |-> downdos.val]
    ELSE [up |-> updos]

\* all_pdos[-1] of one site: Orbital -> {Spin: density}
SitePdos(tables, pot_index, dlength) ==
    LET dens == [k \in DOMAIN vorb |-> Density(tables, pot_index, forb[k] + 1, dlength)]
    IN  IF \E k \in DOMAIN vorb : ~dens[k].ok THEN Err
        ELSE Ok([o \in Orbitals |->
                    LET k == CHOOSE k \in DOMAIN vorb : vorb[k] = o
                    IN  SpinChannels(dens[k].val, DownDos(dens[k].val))])

\* (a variant: one term per potential instead of per site)
TdosSitesOncePerPotential(species) ==
    LET used == {species[i] : i \in 1..Len(species)}
        first(s) == CHOOSE i \in 1..Len(species) :
                        species[i] = s /\ \A k \in 1..Len(species) : species[k] = s => i <= k
        keep == {first(s) : s \in used}
        RECURSIVE Pick(_)
        Pick(i) == IF i > Len(species) THEN <<>>
                   ELSE (IF i \in keep THEN <<species[i]>> ELSE <<>>) \o Pick(i + 1)
    IN  Pick(1)

\* the sites whose densities the total adds up: for i in range(nsites)
TdosSites(species) == [i \in 1..Len(species) |-> species[i]]

\* the columns the total adds up: v + 1 for v in forb.values()
TdosCols == [v \in 1..4 |-> v]

\* tdos[j] = tdos[j] + density[j] over the sites and the four columns
Tdos(tables, pot_dict, species, dlength) ==
    LET sites == TdosSites(species)
        dens == [i \in 1..Len(sites) |-> [v \in 1..Len(TdosCols) |->
                    Density(tables, pot_dict[sites[i]], TdosCols[v], dlength)]]
    IN  IF \E i \in 1..Len(sites), v \in 1..Len(TdosCols) : ~dens[i][v].ok THEN Err
        ELSE Ok([j \in 1..dlength |->
                    SumSeq([i \in 1..Len(sites) |->
                        SumSeq([v \in 1..Len(TdosCols) |-> dens[i][v].val[j]])])])

from_file(pots, species, files, base) ==
    LET pot_dict == PotDict(pots)
        n == Cardinality(DOMAIN pot_dict)
        efermi == ReadFermi(files, base)
        loaded == LoadTables(files, base, n)
    IN  IF ~efermi.ok \/ (\E i \in 1..n : ~loaded[i].ok) THEN Raised
        ELSE
        LET tables == [i \in 1..n |-> loaded[i].val]
            energies == DosEnergies(tables[1])
            dlength == PyLen(tables[1])
            pot_index == [i \in 1..Len(species) |-> SitePotIndex(pot_dict, species, i)]
        IN  IF ~energies.ok \/ (\E i \in 1..Len(species) : ~pot_index[i].ok)
            THEN Raised
            ELSE
            LET pdos == [i \in 1..Len(species) |->
                            SitePdos(tables, pot_index[i].val, dlength)]
            IN  IF \E i \in 1..Len(species) : ~pdos[i].ok THEN Raised
                ELSE
                LET tdos == Tdos(tables, pot_dict, species, dlength)
                    charge == charge_transfer_from_file(pots, files, base)
                IN  IF ~tdos.ok \/ charge.st # "ok" THEN Raised
                    ELSE [st |-> "ok",
                          efermi |-> efermi.val,
                          energies |-> energies.val,
                          tdos |-> [up |-> tdos.val],
                          pdos |-> [i \in 1..Len(species) |-> pdos[i].val],
                          structure |-> species,
                          charge_transfer |-> charge.d]

(***************************************************************************)
(* LDos.charge_transfer_to_string: the pieces joined into the string       *)
(***************************************************************************)
RECURSIVE Concat(_)
Concat(ss) == IF ss = <<>> THEN <<>> ELSE Head(ss) \o Concat(Tail(ss))

\* (a variant: every lookup gives the first entry)
ChtLookupFirst(ch, key) == IF ch = <<>> THEN Err ELSE Ok(ch[1].val)

\* the entry ch[str(i)], a KeyError when there is none
ChtLookup(ch, key) ==
    IF \E k \in 1..Len(ch) : ch[k].key = key
    THEN Ok(ch[CHOOSE k \in 1..Len(ch) : ch[k].key = key].val)
    ELSE Err

ChtBlock(entry) ==
    LET atom == CHOOSE a \in DOMAIN entry : TRUE
        v2 == entry[atom]
    IN  <<"\n", atom, "\n", "s   ", Str(v2.s), "\n", "p   ", Str(v2.p), "\n",
          "d   ", Str(v2.d), "\n", "f   ", Str(v2.f), "\n", "tot ", Str(v2.tot), "\n">>

charge_transfer_to_string(ch) ==
    LET e == [i \in 1..Len(ch) |-> ChtLookup(ch, Str(i - 1))]
    IN  IF \E i \in 1..Len(ch) : ~e[i].ok THEN Raised
        ELSE [st |-> "ok",
              s |-> <<"\nCharge Transfer\n\nabsorbing atom">>
                    \o Concat([i \in 1..Len(ch) |-> ChtBlock(e[i].val)])]

(***************************************************************************)
(* The inputs of an LDos run: feff.inp and the ldos files of the directory.*)
(* Every file follows the FEFF layout (7 header lines, 5 columns) except   *)
(* at most one, which is missing, has a header one line short, has header  *)
(* lines with too few tokens, or has a table one column short.  The tables *)
(* have any number of rows up to MaxRows, each file its own.  The table of  *)
(* <base>00.dat is never loaded: of its rows only the first can be reached *)
(* (as line 6 under a short header), so it has one row or none.            *)
(***************************************************************************)
Defects == {"missing", "shorthdr", "fewtok", "fewcols"}

\* the indices an ldos file can be asked for: 0 .. number of symbols
FileIdx == 0..Cardinality(Symbols)

\* a file of potential i with hdr header lines and an n x m table (cols: the
\* tokens of a data line, 0 when there is none)
MkFile(i, hdr, htok, n, m) ==
    [id |-> i, hdr |-> hdr, htok |-> htok, tab |-> MkTab(i, n, m),
     cols |-> IF n = 0 THEN 0 ELSE m]

GoodFile(i, n) == MkFile(i, HeaderLines, TRUE, n, LdosCols)

DefectFile(i, n, kind) ==
    CASE kind = "shorthdr" -> MkFile(i, HeaderLines - 1, TRUE, n, LdosCols)
      [] kind = "fewtok" -> MkFile(i, HeaderLines, FALSE, n, LdosCols)
      [] kind = "fewcols" -> MkFile(i, HeaderLines, TRUE, n, LdosCols - 1)
      [] OTHER -> GoodFile(i, n)

\* the directory: rows[i] data rows in file i, file bad (if any) with the defect
Directory(rows, bad, kind) ==
    LET present == {i \in FileIdx : ~(i = bad /\ kind = "missing")}
        idx(name) == CHOOSE i \in present : LdosName(LdosBase, i) = name
    IN  [name \in {LdosName(LdosBase, i) : i \in present} |->
            IF idx(name) = bad THEN DefectFile(idx(name), rows[idx(name)], kind)
            ELSE GoodFile(idx(name), rows[idx(name)])]

NoInput == [pots |-> <<>>, species |-> <<>>]
NoFiles == [name \in {} |-> 0]

InitLDos ==
    /\ \E pots \in SeqsUpTo(Symbols, 1, MaxPots), species \in SeqsUpTo(Symbols, 1, MaxSites) :
          inp = [pots |-> pots, species |-> species]
    /\ \E rows \in {r \in [FileIdx -> 0..MaxRows] : r[0] <= 1} :
          \/ fs = Directory(rows, -1, "none")
          \/ \E bad \in FileIdx, kind \in Defects : fs = Directory(rows, bad, kind)
    /\ ldos = None
    /\ ldos0 = None
    /\ cht = None
    /\ chts = None
    /\ opened = <<>>
    /\ copened = <<>>

\* A long POTENTIALS block: potential 0 is the absorbing atom, potential 1
\* the other atoms of its element, every further potential an element of
\* its own, up to index MaxIndex.  The ldos files all follow the layout and
\* have the same number of rows; the last may be missing.
LongSymbol(k) == "X" \o Str(k)

LongPots(L) == [k \in 1..L |-> IF k = 1 THEN LongSymbol(1) ELSE LongSymbol(k - 1)]

LongDirectory(L, n, missing) ==
    LET present == (0..(L - 1)) \ {missing}
        idx(name) == CHOOSE i \in present : LdosName(LdosBase, i) = name
    IN  [name \in {LdosName(LdosBase, i) : i \in present} |-> GoodFile(idx(name), n)]

InitLDosLong ==
    /\ \E L \in 3..(MaxIndex + 1) :
          /\ \E species \in SeqsUpTo({LongSymbol(1), LongSymbol(L - 1)}, 1, MaxSites) :
                inp = [pots |-> LongPots(L), species |-> species]
          /\ \E n \in 0..MaxRows, missing \in {-1, L - 1} :
                fs = LongDirectory(L, n, missing)
    /\ ldos = None
    /\ ldos0 = None
    /\ cht = None
    /\ chts = None
    /\ opened = <<>>
    /\ copened = <<>>

IdleLDos ==
    /\ inp = NoInput
    /\ fs = NoFiles
    /\ ldos = None
    /\ ldos0 = None
    /\ cht = None
    /\ chts = None
    /\ opened = <<>>
    /\ copened = <<>>

(***************************************************************************)
(* The calls of an LDos run.                                               *)
(***************************************************************************)
\* LDos.from_file(filename1, filename2); ldos0 keeps the fields as they were
\* right after
LDosFromFile ==
    /\ inp # NoInput
    /\ ldos = None
    /\ ldos' = from_file(inp.pots, inp.species, fs, LdosBase)
    /\ ldos0' = ldos'
    /\ opened' = FromFileOpens(inp.pots, fs, LdosBase)
    /\ UNCHANGED <<inp, fs, cht, chts, copened, xmuVars, lobVars>>

\* LDos.charge_transfer_from_file(filename1, filename2), called on its own
ChargeTransferFromFile ==
    /\ inp # NoInput
    /\ cht = None
    /\ cht' = charge_transfer_from_file(inp.pots, fs, LdosBase)
    /\ copened' = ChargeOpens(inp.pots, fs, LdosBase)
    /\ UNCHANGED <<inp, fs, ldos, ldos0, chts, opened, xmuVars, lobVars>>

\* ldos.charge_transfer_to_string()
ChargeTransferToString ==
    /\ ldos.st = "ok"
    /\ chts = None
    /\ chts' = charge_transfer_to_string(ldos.charge_transfer)
    /\ UNCHANGED <<inp, fs, ldos, ldos0, cht, opened, copened, xmuVars, lobVars>>

(***************************************************************************)
(* Xmu.  An object is [header, parameters, absorbing_atom, data].          *)
(***************************************************************************)
\* the columns of xmu.dat
XmuCols == 6

\* data[:, c]: the column as a view, IndexError on a 1-D array
Column(a, c) ==
    IF a.ndim = 2 /\ c < a.ncols THEN Ok([i \in 1..Len(a.d) |-> a.d[i][c + 1]]) ELSE Err

\* a.tolist(): nested lists of a 2-D array, a flat list of a 1-D one; the
\* list of an array without rows is [] whatever its shape was
ToList(a) == [nested |-> a.ndim = 2 /\ a.d # <<>>, d |-> a.d]

\* np.array(list)
NpArray(l) ==
    IF l.d = <<>> THEN Array1(<<>>)
    ELSE IF l.nested THEN Array2(l.d, Len(l.d[1]))
    ELSE Array1(l.d)

energies(x) == Column(x.data, 0)
relative_energies(x) == Column(x.data, 1)
wavenumber(x) == Column(x.data, 2)
mu(x) == Column(x.data, 3)
mu0(x) == Column(x.data, 4)
chi(x) == Column(x.data, 5)

source(x) == Ok(x.header.source)

\* (a variant: decided by the EXAFS key)
calcByExafs(x) == Ok(IF "EXAFS" \in DOMAIN x.parameters THEN "EXAFS" ELSE "XANES")

calc(x) == Ok(IF "XANES" \in DOMAIN x.parameters THEN "XANES" ELSE "EXAFS")

\* header.formula, which may raise IndexError
HeaderFormula(h) == IF h.formula = "" THEN Err ELSE Ok(h.formula)

material_formula(x) ==
    LET form == HeaderFormula(x.header)
    IN  Ok(IF form.ok THEN form.val ELSE "No formula provided")

\* self.parameters["EDGE"], a KeyError without the key
edge(x) == IF "EDGE" \in DOMAIN x.parameters THEN Ok(x.parameters["EDGE"]) ELSE Err

\* Header.as_dict and Header.from_dict
HeaderAsDict(h) == [class |-> "Header", source |-> h.source, formula |-> h.formula]
HeaderFromDict(d) == [source |-> d.source, formula |-> d.formula]

\* the dictionary of as_dict; 'energies' is the view self.energies and 'TAGS'
\* the parameters object itself
as_dict(x) ==
    IF ~(energies(x).ok /\ mu(x).ok /\ mu0(x).ok /\ chi(x).ok /\ edge(x).ok) THEN Err
    ELSE Ok([module |-> "pymatgen.io.feff.outputs",
             class |-> "Xmu",
             energies |-> energies(x).val,
             mu |-> mu(x).val,
             mu0 |-> mu0(x).val,
             chi |-> chi(x).val,
             atom |-> x.absorbing_atom,
             edge |-> edge(x).val,
             source |-> source(x).val,
             calc |-> calc(x).val,
             formula |-> material_formula(x).val,
             HEADER |-> HeaderAsDict(x.header),
             TAGS |-> x.parameters,
             c_atom |-> x.absorbing_atom,
             xmu |-> ToList(x.data)])

Xmu(header, parameters, absorbing_atom, data) ==
    [st |-> "ok", header |-> header, parameters |-> parameters,
     absorbing_atom |-> absorbing_atom, data |-> data]

from_dict(xdict) ==
    Xmu(HeaderFromDict(xdict.HEADER), xdict.TAGS, xdict.c_atom, NpArray(xdict.xmu))

\* the value in row i, column c (0-based) of xmu.dat
XCell(i, c) == 10 * (i + 1) + c

XTab(n) == [i \in 1..n |-> [c \in 1..XmuCols |-> XCell(i - 1, c - 1)]]

\* absorbing_atom = pots.splitlines()[1].split()[2]: the symbol of potential 0
AbsorbingAtom(pots) == pots[1]

\* Xmu.from_file(filename, input_filename)
Xmu_from_file(in) ==
    Xmu(in.header, in.parameters, AbsorbingAtom(in.pots), LoadTxtRows(XTab(in.rows), XmuCols))

\* Xmu(header, parameters, absorbing_atom, data) on an Nx6 array
Xmu_construct(in) ==
    Xmu(in.header, in.parameters, AbsorbingAtom(in.pots), Array2(XTab(in.rows), XmuCols))

Accessors ==
    {"energies", "relative_energies", "wavenumber", "mu", "mu0", "chi",
     "source", "calc", "material_formula", "edge"}

ViewColumn ==
    [energies |-> 0, relative_energies |-> 1, wavenumber |-> 2, mu |-> 3, mu0 |-> 4,
     chi |-> 5]

\* what the caller holds after x.<a>: a view on a column of x.data, or a string
Access(x, a) ==
    LET r == CASE a = "energies" -> energies(x)
               [] a = "relative_energies" -> relative_energies(x)
               [] a = "wavenumber" -> wavenumber(x)
               [] a = "mu" -> mu(x)
               [] a = "mu0" -> mu0(x)
               [] a = "chi" -> chi(x)
               [] a = "source" -> source(x)
               [] a = "calc" -> calc(x)
               [] a = "material_formula" -> material_formula(x)
               [] OTHER -> edge(x)
    IN  IF ~r.ok THEN [kind |-> "error"]
        ELSE IF a \in DOMAIN ViewColumn THEN [kind |-> "view", col |-> ViewColumn[a]]
        ELSE [kind |-> "str", v |-> r.val]

TagKeys == {"EDGE", "XANES", "EXAFS"}
TagValue == [EDGE |-> "K", XANES |-> "3.7", EXAFS |-> "20"]
Headers == {[source |-> "MP", formula |-> "Co1 O1"], [source |-> "ICSD", formula |-> ""]}

NoXmuInput == [via |-> "none"]

InitXmu ==
    /\ \E via \in {"file", "ctor"}, rows \in 0..MaxXRows, K \in SUBSET TagKeys,
          h \in Headers, a \in Symbols :
          xin = [via |-> via, rows |-> rows, parameters |-> [k \in K |-> TagValue[k]],
                 header |-> h, pots |-> <<a>>]
    /\ xmu = None
    /\ xmu0 = None
    /\ ret = [kind |-> "none"]
    /\ xmu2 = None
    /\ wrote = FALSE

IdleXmu ==
    /\ xin = NoXmuInput
    /\ xmu = None
    /\ xmu0 = None
    /\ ret = [kind |-> "none"]
    /\ xmu2 = None
    /\ wrote = FALSE

\* x = Xmu.from_file(...); xmu0 keeps the fields as they were right after
XmuFromFile ==
    /\ xin.via = "file"
    /\ xmu = None
    /\ xmu' = Xmu_from_file(xin)
    /\ xmu0' = xmu'
    /\ UNCHANGED <<xin, ret, xmu2, wrote, ldosVars, lobVars>>

\* x = Xmu(header, parameters, absorbing_atom, data)
XmuConstruct ==
    /\ xin.via = "ctor"
    /\ xmu = None
    /\ xmu' = Xmu_construct(xin)
    /\ xmu0' = xmu'
    /\ UNCHANGED <<xin, ret, xmu2, wrote, ldosVars, lobVars>>

\* r = x.energies, x.mu, x.edge, ...
XmuAccess ==
    /\ xmu.st = "ok"
    /\ \E a \in Accessors : ret' = Access(xmu, a)
    /\ UNCHANGED <<xin, xmu, xmu0, xmu2, wrote, ldosVars, lobVars>>

\* r = x.as_dict()
XmuAsDict ==
    /\ xmu.st = "ok"
    /\ ret' = IF as_dict(xmu).ok THEN [kind |-> "dict", d |-> as_dict(xmu).val]
              ELSE [kind |-> "error"]
    /\ UNCHANGED <<xin, xmu, xmu0, xmu2, wrote, ldosVars, lobVars>>

\* y = Xmu.from_dict(r)
XmuFromDict ==
    /\ ret.kind = "dict"
    /\ xmu2 = None
    /\ xmu2' = from_dict(ret.d)
    /\ UNCHANGED <<xin, xmu, xmu0, ret, wrote, ldosVars, lobVars>>

\* the values the caller stores
WriteVals == {0}
WriteEdge == "M5"

\* a[0][c] = v in the array the object holds
SetCell(a, c, v) == [a EXCEPT !.d[1][c + 1] = v]

\* tags[k] = v
SetTag(tags, k, v) == [j \in DOMAIN tags \cup {k} |-> IF j = k THEN v ELSE tags[j]]

\* The caller stores into what the last call returned: r[0] = v on a column
\* view writes through to x.data; d['energies'][0] = v does the same;
\* d['TAGS']['EDGE'] = e writes the Tags object x (and every Xmu made from d)
\* holds; d['mu'][0] = v writes a list that tolist() copied.
CallerWrite ==
    /\ ~wrote
    /\ wrote' = TRUE
    /\ UNCHANGED <<ldosVars, lobVars>>
    /\ \E WriteVal \in WriteVals :
       \/ /\ ret.kind = "view"
          /\ xmu.data.d # <<>>
          /\ xmu' = [xmu EXCEPT !.data = SetCell(@, ret.col, WriteVal)]
          /\ UNCHANGED <<xin, xmu0, ret, xmu2>>
       \/ /\ ret.kind = "dict"
          /\ xmu.data.d # <<>>
          /\ xmu' = [xmu EXCEPT !.data = SetCell(@, 0, WriteVal)]
          /\ ret' = [ret EXCEPT !.d.energies[1] = WriteVal]
          /\ UNCHANGED <<xin, xmu0, xmu2>>
       \/ /\ ret.kind = "dict"
          /\ xmu' = [xmu EXCEPT !.parameters = SetTag(@, "EDGE", WriteEdge)]
          /\ ret' = [ret EXCEPT !.d.TAGS = SetTag(@, "EDGE", WriteEdge)]
          /\ xmu2' = IF xmu2 = None THEN xmu2
                     ELSE [xmu2 EXCEPT !.parameters = SetTag(@, "EDGE", WriteEdge)]
          /\ UNCHANGED <<xin, xmu0>>
       \/ /\ ret.kind = "dict"
          /\ ret.d.mu # <<>>
          /\ ret' = [ret EXCEPT !.d.mu[1] = WriteVal]
          /\ UNCHANGED <<xin, xmu, xmu0, xmu2>>

(***************************************************************************)
(* The LOBSTER readers (pymatgen.io.lobster: Cohpcar, Icohplist, Doscar),  *)
(* as the data model and the tests describe their results.  A file lists   *)
(* its bonds by label, says whether the run was spin polarized, and, for a *)
(* COHPCAR, whether it holds the bond totals or only orbital-resolved      *)
(* columns.                                                                *)
(***************************************************************************)
BondLabels == {"Fe8-Fe7", "Fe8-Fe9"}
Readers == {"Cohpcar", "Icohplist", "Doscar"}
LobOrbitals == {"2s", "2p_y"}

\* (a variant: both spins whatever the file says)
SpinsAlwaysBoth(polarized) == {"up", "down"}

\* the spins of a file: [Spin.up, Spin.down] when polarized, else [Spin.up]
Spins(polarized) == IF polarized THEN {"up", "down"} ELSE {"up"}

\* the value of bond b (0 the average), spin sp at energy point e
LobVal(b, sp, e) == 100 * b + 10 * e + (IF sp = "up" THEN 1 ELSE 2)

\* (a variant: the last energy row dropped)
SpinArraysShort(polarized, b, n) ==
    [sp \in Spins(polarized) |-> [e \in 1..(n - 1) |-> LobVal(b, sp, e)]]

\* {spin: array over the energies}
SpinArrays(polarized, b, n) ==
    [sp \in Spins(polarized) |-> [e \in 1..n |-> LobVal(b, sp, e)]]

\* {spin: number}
SpinScalars(polarized, b) == [sp \in Spins(polarized) |-> LobVal(b, sp, 0)]

NoChannels == [none |-> TRUE]

\* the position of the bond whose entry a label keeps: the last one listed
BondOf(bonds, label) ==
    CHOOSE k \in 1..Len(bonds) :
        bonds[k] = label /\ \A j \in 1..Len(bonds) : bonds[j] = label => j <= k

\* Cohpcar.cohp_data: "average" and one entry per bond label
CohpData(in) ==
    [l \in {"average"} \cup {in.bonds[k] : k \in 1..Len(in.bonds)} |->
        IF l = "average"
        THEN [COHP |-> SpinArrays(in.spin, 0, in.nE), ICOHP |-> SpinArrays(in.spin, 0, in.nE),
              length |-> 0, sites |-> <<>>]
        ELSE LET k == BondOf(in.bonds, l)
             IN  [COHP |-> IF in.totals THEN SpinArrays(in.spin, k, in.nE) ELSE NoChannels,
                  ICOHP |-> IF in.totals THEN SpinArrays(in.spin, k, in.nE) ELSE NoChannels,
                  length |-> k, sites |-> <<k, k + 1>>]]

Cohpcar(in) ==
    [st |-> "ok", reader |-> "Cohpcar", is_spin_polarized |-> in.spin,
     energies |-> [e \in 1..in.nE |-> e], cohp_data |-> CohpData(in)]

\* Icohplist.icohplist: label -> length, number_of_bonds, {spin: icohp}
Icohplist(in) ==
    [st |-> "ok", reader |-> "Icohplist", is_spin_polarized |-> in.spin,
     icohplist |-> [l \in {in.bonds[k] : k \in 1..Len(in.bonds)} |->
                      LET k == BondOf(in.bonds, l)
                      IN  [length |-> k, number_of_bonds |-> k,
                           icohp |-> SpinScalars(in.spin, k)]]]

\* Doscar: tdensities {spin: densities}, pdos[atom][orbital] {spin: densities}
Doscar(in) ==
    [st |-> "ok", reader |-> "Doscar", is_spin_polarized |-> in.spin,
     energies |-> [e \in 1..in.nE |-> e],
     tdensities |-> SpinArrays(in.spin, 0, in.nE),
     pdos |-> <<[o \in LobOrbitals |-> SpinArrays(in.spin, 1, in.nE)]>>]

NoLobInput == [reader |-> "none"]

InitLobster ==
    /\ \E r \in Readers, spin \in BOOLEAN, totals \in BOOLEAN, nE \in 1..MaxEnergies,
          bonds \in SeqsUpTo(BondLabels, 1, MaxBonds) :
          lin = [reader |-> r, spin |-> spin, totals |-> totals, nE |-> nE, bonds |-> bonds]
    /\ lob = None

IdleLobster ==
    /\ lin = NoLobInput
    /\ lob = None

\* Cohpcar(filename), Icohplist(filename), Doscar(doscar, vasprun)
LobsterRead ==
    /\ lin # NoLobInput
    /\ lob = None
    /\ lob' = CASE lin.reader = "Cohpcar" -> Cohpcar(lin)
                [] lin.reader = "Icohplist" -> Icohplist(lin)
                [] OTHER -> Doscar(lin)
    /\ UNCHANGED <<lin, ldosVars, xmuVars>>

(***************************************************************************)
(* The specification: one run of one of the readers.                       *)
(***************************************************************************)
Init ==
    \/ InitLDos /\ IdleXmu /\ IdleLobster
    \/ InitLDosLong /\ IdleXmu /\ IdleLobster
    \/ IdleLDos /\ InitXmu /\ IdleLobster
    \/ IdleLDos /\ IdleXmu /\ InitLobster

Next ==
    \/ LDosFromFile
    \/ ChargeTransferFromFile
    \/ ChargeTransferToString
    \/ XmuFromFile
    \/ XmuConstruct
    \/ XmuAccess
    \/ XmuAsDict
    \/ XmuFromDict
    \/ CallerWrite
    \/ LobsterRead

Spec == Init /\ [][Next]_vars

(***************************************************************************)
(* The claims.                                                             *)
(***************************************************************************)
OrbitalSeq == <<"s", "py", "dxy", "f0">>

\* C1: in the object LDos.from_file returned, the total density at every
\* energy row j is the sum, over all sites and over the orbitals s, p, d, f,
\* of the site's partial density at row j (a table counts once per site
\* using it).
C1_TotalIsSumOverSites ==
    ldos.st = "ok" =>
        \A j \in 1..Len(ldos.energies) :
            ldos.tdos["up"][j] =
                SumSeq([i \in 1..Len(ldos.structure) |->
                    SumSeq([o \in 1..Len(OrbitalSeq) |->
                        ldos.pdos[i][OrbitalSeq[o]]["up"][j]])])

\* an object with two sites of one potential and at least two energy rows
C1_Witness ==
    /\ ldos.st = "ok"
    /\ Len(ldos.structure) = 2
    /\ ldos.structure[1] = ldos.structure[2]
    /\ Len(ldos.energies) >= 2

\* C2: in the object LDos.from_file returned, the total density and every
\* per-site, per-orbital partial density have the one spin channel Spin.up.
C2_OnlySpinUp ==
    ldos.st = "ok" =>
        /\ DOMAIN ldos.tdos = {"up"}
        /\ \A i \in 1..Len(ldos.structure) :
              /\ DOMAIN ldos.pdos[i] = Orbitals
              /\ \A o \in Orbitals : DOMAIN ldos.pdos[i][o] = {"up"}

\* an object with densities that are not empty
C2_Witness ==
    /\ ldos.st = "ok"
    /\ Len(ldos.energies) >= 2
    /\ \A i \in 1..Len(ldos.structure), o \in Orbitals :
          Len(ldos.pdos[i][o]["up"]) = Len(ldos.energies)

\* x and y have equal fields, and every accessor returns the same on both
SameXmu(x, y) ==
    /\ y.st = "ok"
    /\ y.data = x.data
    /\ y.absorbing_atom = x.absorbing_atom
    /\ y.parameters = x.parameters
    /\ y.header = x.header
    /\ \A a \in Accessors : Access(y, a) = Access(x, a)
    /\ <<energies(y), relative_energies(y), wavenumber(y), mu(y), mu0(y), chi(y)>>
         = <<energies(x), relative_energies(x), wavenumber(x), mu(x), mu0(x), chi(x)>>
    /\ <<source(y), calc(y), material_formula(y), edge(y)>>
         = <<source(x), calc(x), material_formula(x), edge(x)>>

\* C3: for every Xmu x, from_dict(x.as_dict()) is an Xmu with the data,
\* absorbing_atom, parameters and header of x, every accessor returns the
\* same on both, and a second as_dict/from_dict changes nothing further.
C3_RoundTrip ==
    xmu.st = "ok" =>
        /\ as_dict(xmu).ok
        /\ LET y == from_dict(as_dict(xmu).val)
           IN  /\ SameXmu(xmu, y)
               /\ as_dict(y).ok
               /\ from_dict(as_dict(y).val) = y

\* C4: for an Xmu built from an N-row, 6-column table, energies,
\* relative_energies, wavenumber, mu, mu0 and chi return columns 0 .. 5, each
\* with N values in row order: their i-th values together are row i of the
\* table.  (Stated of an object no caller has written into.)
C4_AccessorsAreColumns ==
    (xmu.st = "ok" /\ ~wrote) =>
        LET acc == <<energies(xmu), relative_energies(xmu), wavenumber(xmu),
                     mu(xmu), mu0(xmu), chi(xmu)>>
        IN  /\ \A k \in 1..XmuCols : acc[k].ok /\ Len(acc[k].val) = xin.rows
            /\ \A i \in 1..xin.rows :
                  [k \in 1..XmuCols |-> acc[k].val[i]] = XTab(xin.rows)[i]

\* C5: the dictionary charge_transfer_from_file returns has one entry per
\* potential of the POTENTIALS block, keyed "0", "1", ... in ascending order,
\* entry i mapping the symbol of potential i to the keys s, p, d, f, tot.
C5_OneEntryPerPotential ==
    cht.st = "ok" =>
        /\ Len(cht.d) = Len(inp.pots)
        /\ \A k \in 1..Len(cht.d) :
              /\ cht.d[k].key = Str(k - 1)
              /\ k <= Len(inp.pots) => DOMAIN cht.d[k].val = {inp.pots[k]}
              /\ \A a \in DOMAIN cht.d[k].val :
                    DOMAIN cht.d[k].val[a] = {"s", "p", "d", "f", "tot"}

\* the tables from_file loads
LoadedIdx == 1..Cardinality(DOMAIN PotDict(inp.pots))

\* the files from_file and charge_transfer_from_file read
ReadIdx == 0..Cardinality(DOMAIN PotDict(inp.pots))

\* C6: from_file validates the layout of the tables: when a loaded table has
\* a number of rows other than that of <base>01.dat, or fewer than 5
\* columns, the call fails and returns no LDos.
C6_LayoutValidated ==
    (/\ ldos # None
     /\ \A i \in LoadedIdx : LdosName(LdosBase, i) \in DOMAIN fs
     /\ \E i \in LoadedIdx :
           \/ Len(fs[LdosName(LdosBase, i)].tab) # Len(fs[LdosName(LdosBase, 1)].tab)
           \/ /\ fs[LdosName(LdosBase, i)].tab # <<>>
              /\ fs[LdosName(LdosBase, i)].cols < LdosCols)
    => ldos.st = "error"

\* a file the calls read is missing, has fewer than 7 header lines, or has
\* header lines with too few tokens
BadInput ==
    \E i \in ReadIdx :
        \/ LdosName(LdosBase, i) \notin DOMAIN fs
        \/ fs[LdosName(LdosBase, i)].hdr < HeaderLines
        \/ ~fs[LdosName(LdosBase, i)].htok

\* C7: when a file from_file or charge_transfer_from_file reads is missing,
\* or an ldos file has fewer than 7 header lines or too few tokens on a line
\* that is read, the call ends in an error: no LDos and no dictionary.
C7_BadInputRaises ==
    /\ (ldos # None /\ BadInput) => ldos.st = "error"
    /\ (cht # None /\ BadInput) => cht.st = "error"

\* C8: a parsed Xmu or LDos is immutable: after any sequence of its public
\* operations, the caller modifying what they returned included, its fields
\* equal their values right after parsing.
C8_Immutable ==
    /\ xmu = xmu0
    /\ ldos = ldos0

\* the sets of spin keys of the per-spin values of a LOBSTER result
ChannelKeys ==
    CASE lob.reader = "Cohpcar" ->
            {DOMAIN lob.cohp_data[l][q] :
                l \in {b \in DOMAIN lob.cohp_data : lob.cohp_data[b].COHP # NoChannels},
                q \in {"COHP", "ICOHP"}}
      [] lob.reader = "Icohplist" ->
            {DOMAIN lob.icohplist[l].icohp : l \in DOMAIN lob.icohplist}
      [] OTHER ->
            {DOMAIN lob.tdensities}
            \cup {DOMAIN lob.pdos[a][o] : a \in DOMAIN lob.pdos, o \in LobOrbitals}

BondArraysFull ==
    \A l \in DOMAIN lob.cohp_data \ {"average"} :
        /\ Len(lob.cohp_data[l].COHP["up"]) = Len(lob.energies)
        /\ Len(lob.cohp_data[l].ICOHP["up"]) = Len(lob.energies)

C11_PdosAreColumns ==
    ldos.st = "ok" =>
        \A i \in 1..Len(ldos.structure) :
            /\ DOMAIN ldos.pdos[i] = {"s", "py", "dxy", "f0"}
            /\ \A j \in 1..Len(ldos.energies) :
                  LET row == fs[LdosName(LdosBase, PotDict(inp.pots)[inp.species[i]])].tab[j]
                  IN  /\ ldos.pdos[i]["s"]["up"][j] = row[2]
                      /\ ldos.pdos[i]["py"]["up"][j] = row[3]
                      /\ ldos.pdos[i]["dxy"]["up"][j] = row[4]
                      /\ ldos.pdos[i]["f0"]["up"][j] = row[5]

\* an object with sites of two potentials and at least two energy rows
C11_Witness ==
    /\ ldos.st = "ok"
    /\ Len(ldos.structure) = 2
    /\ ldos.structure[1] # ldos.structure[2]
    /\ Len(ldos.energies) >= 2

\* C12: in the object from_file returned, the energies are the first column
\* of <base>01.dat in row order, and the total density and every partial
\* density have as many values as there are energies, whatever the row
\* counts of the other ldos files.
C12_LengthsFollowFirstTable ==
    ldos.st = "ok" =>
        LET tab == fs[LdosName(LdosBase, 1)].tab
        IN  /\ ldos.energies = [j \in 1..Len(tab) |-> tab[j][1]]
            /\ Len(ldos.tdos["up"]) = Len(ldos.energies)
            /\ \A i \in 1..Len(ldos.structure) : \A o \in DOMAIN ldos.pdos[i] :
                  Len(ldos.pdos[i][o]["up"]) = Len(ldos.energies)

\* an object read where another loaded table has more rows than <base>01.dat
C12_Witness ==
    /\ ldos.st = "ok"
    /\ Len(ldos.energies) >= 2
    /\ LdosName(LdosBase, 2) \in DOMAIN fs
    /\ Cardinality(DOMAIN PotDict(inp.pots)) = 2
    /\ Len(fs[LdosName(LdosBase, 2)].tab) > Len(ldos.energies)

\* the index as the file names carry it: two digits, a zero before i < 10
Padded(i) == IF i < 10 THEN "0" \o Str(i) ELSE Str(i)

\* C13: with N = len(pot_dict), a from_file that returns has opened
\* <base>00.dat for the Fermi energy and loaded <base>01.dat .. <base>N.dat,
\* each once and in this order, the index zero-padded to two digits below 10
\* and unpadded from 10 on; a charge_transfer_from_file that returns has
\* read the files of these names for the indices 0 .. N.
C13_FilesRead ==
    LET N == Cardinality(DOMAIN PotDict(inp.pots))
    IN  /\ ldos.st = "ok" =>
              opened = <<LdosBase \o "00.dat">>
                       \o [i \in 1..N |-> LdosBase \o Padded(i) \o ".dat"]
        /\ cht.st = "ok" =>
              copened = [k \in 1..(N + 1) |-> LdosBase \o Padded(k - 1) \o ".dat"]

\* both calls have returned for a block with ten or more tables
C13_Witness ==
    /\ ldos.st = "ok"
    /\ cht.st = "ok"
    /\ Cardinality(DOMAIN PotDict(inp.pots)) >= 10
    /\ Len(opened) >= 11
    /\ Len(copened) >= 11

\* token tok of line ln (both counted from 1) of an ldos file: the number of
\* a header line, or a number of a data row
FileToken(f, ln, tok) ==
    IF ln <= f.hdr THEN HeaderVal(f.id, ln - 1) ELSE f.tab[ln - f.hdr][tok]

\* C14: for every potential index i of the returned dictionary, s, p, d, f
\* are the third token of lines 4, 5, 6, 7 of ldos file i and tot the fifth
\* token of line 2, stored under the symbol of potential i; the same for
\* one-digit and for two-digit indices.
C14_SameExtraction ==
    cht.st = "ok" =>
        \A k \in 1..Len(cht.d) :
            LET file == fs[LdosBase \o Padded(k - 1) \o ".dat"]
            IN  cht.d[k].val =
                    (inp.pots[k] :> [s |-> FileToken(file, 4, 3),
                                     p |-> FileToken(file, 5, 3),
                                     d |-> FileToken(file, 6, 3),
                                     f |-> FileToken(file, 7, 3),
                                     tot |-> FileToken(file, 2, 5)])

\* a dictionary with entries of one-digit and of two-digit indices
C14_Witness ==
    /\ cht.st = "ok"
    /\ Len(cht.d) >= 11
    /\ cht.d[11].key = "10"

\* the pieces of the block of one entry: symbol, then s, p, d, f, tot
BlockOf(atom, v) ==
    <<"\n", atom, "\n", "s   ", Str(v.s), "\n", "p   ", Str(v.p), "\n",
      "d   ", Str(v.d), "\n", "f   ", Str(v.f), "\n", "tot ", Str(v.tot), "\n">>

BlockLen == Len(BlockOf("", [s |-> 0, p |-> 0, d |-> 0, f |-> 0, tot |-> 0]))

\* C15: for the dictionary charge_transfer_from_file returned,
\* charge_transfer_to_string does not fail on a missing key and gives the
\* heading followed by one block per entry in ascending potential index,
\* each the symbol and then s, p, d, f, tot; every entry appears once.
C15_OneBlockPerEntry ==
    chts # None =>
        LET ch == ldos.charge_transfer
        IN  /\ chts.st = "ok"
            /\ Len(chts.s) = 1 + BlockLen * Len(ch)
            /\ chts.s[1] = "\nCharge Transfer\n\nabsorbing atom"
            /\ \A k \in 1..Len(ch) :
                  /\ ch[k].key = Str(k - 1)
                  /\ SubSeq(chts.s, 2 + BlockLen * (k - 1), 1 + BlockLen * k)
                        = BlockOf(inp.pots[k], ch[k].val[inp.pots[k]])

\* the string of a dictionary with one-digit and two-digit keys
C15_Witness ==
    /\ chts # None
    /\ chts.st = "ok"
    /\ Len(ldos.charge_transfer) >= 11

\* C16: x.calc is one of "XANES" and "EXAFS": "XANES" exactly when the
\* parameters contain the key XANES, "EXAFS" for every other parameter set,
\* one with neither key included.
C16_CalcByXanesKey ==
    xmu.st = "ok" =>
        LET r == Access(xmu, "calc")
        IN  /\ r.kind = "str"
            /\ r.v \in {"XANES", "EXAFS"}
            /\ r.v = "XANES" <=> "XANES" \in DOMAIN xmu.parameters
            /\ r.v = "EXAFS" <=> "XANES" \notin DOMAIN xmu.parameters

\* x.calc has returned "EXAFS" for parameters with neither key
C16_Witness ==
    /\ xmu.st = "ok"
    /\ DOMAIN xmu.parameters \cap {"XANES", "EXAFS"} = {}
    /\ ret = [kind |-> "str", v |-> "EXAFS"]

\* C17: for a structure whose site symbols all occur in the POTENTIALS
\* block, the potential index from_file looks up for every site lies in
\* 1 .. len(pot_dict): it is the number of a table that was loaded.
C17_PotIndexLoaded ==
    LET pot_dict == PotDict(inp.pots)
    IN  (/\ ldos # None
         /\ \A i \in 1..Len(inp.species) : inp.species[i] \in DOMAIN pot_dict)
        => \A i \in 1..Len(inp.species) :
              /\ SitePotIndex(pot_dict, inp.species, i).ok
              /\ SitePotIndex(pot_dict, inp.species, i).val \in LoadedIdx

\* C18: in the object from_file returned, two sites of the same element
\* symbol have the same partial density for every orbital and every row.
C18_SameSymbolSamePdos ==
    ldos.st = "ok" =>
        \A i, k \in 1..Len(ldos.structure) :
            ldos.structure[i] = ldos.structure[k] =>
                \A o \in Orbitals : \A j \in 1..Len(ldos.energies) :
                    ldos.pdos[i][o]["up"][j] = ldos.pdos[k][o]["up"][j]

\* two sites of the element of the second table, with densities of two rows
C18_Witness ==
    /\ ldos.st = "ok"
    /\ Len(ldos.structure) = 2
    /\ ldos.structure[1] = ldos.structure[2]
    /\ PotDict(inp.pots)[ldos.structure[1]] = 2
    /\ Len(ldos.energies) >= 2

====
